---------------------------- MODULE Spec2Model ----------------------------
(***************************************************************************)
(* A model of tsetmc-industry-companies.py: the text normaliser, the JSON  *)
(* fetch client, the two extractors, the CSV writers and main.             *)
(*                                                                         *)
(* Python values are records tagged with their kind k:                     *)
(*   None  [k |-> "none"]                  str   [k |-> "str",  s |-> Text]  *)
(*   int   [k |-> "int",  n |-> Nat]       list  [k |-> "list", l |-> Seq]   *)
(*   dict  [k |-> "dict", d |-> [keys -> values]]                          *)
(* A Text is a sequence of characters; a character is a one-token string.  *)
(***************************************************************************)
EXTENDS Integers, Sequences, FiniteSets, TLC

VARIABLES
    text, slug, s_pc,           \* slugify: argument, result, position
    g_pc,                       \* get_json: position
    g_n,                        \* get_json: len(urls)
    g_url,                      \* get_json: index of the URL of this pass of the loop
    g_total,                    \* the Retry counter `total` of the running session.get
    g_prev,                     \* what the previous GET of the running session.get met
    g_sent,                     \* history: GETs sent to each URL
    g_final,                    \* history: how each URL's pass of the loop ended
    g_last_err,                 \* get_json: last_err
    g_result,                   \* get_json: what it returned or raised
    li_data, li_out, li_pc,     \* load_industries: the JSON fetched, result, position
    lc_data, lc_out, lc_pc,     \* load_companies_for_industry: the same
    pc,                         \* main: position
    industries,                 \* main: industries
    idx,                        \* main: idx of the for loop, from 1
    all_rows,                   \* main: all_rows
    files,                      \* the disk: the files, each a path and its rows
    dirs,                       \* the disk: the directories
    files0,                     \* history: the files when main started
    requests,                   \* history: the get_json calls main made
    loaded,                     \* history: the companies of each pass of the loop
    written,                    \* history: the files main wrote, in order
    stdout,                     \* what main printed
    error                       \* the exception that ended main, or "none"

slugVars == <<text, slug, s_pc>>

fetchVars == <<g_pc, g_n, g_url, g_total, g_prev, g_sent, g_final, g_last_err, g_result>>

indVars == <<li_data, li_out, li_pc>>

compVars == <<lc_data, lc_out, lc_pc>>

mainVars == <<pc, industries, idx, all_rows, files, dirs, files0, requests, loaded,
              written, stdout, error>>

vars == <<slugVars, fetchVars, indVars, compVars, mainVars>>

-----------------------------------------------------------------------------
(* Python values *)

None == [k |-> "none"]

PyStr(t) == [k |-> "str", s |-> t]

PyInt(n) == [k |-> "int", n |-> n]

PyList(l) == [k |-> "list", l |-> l]

PyDict(f) == [k |-> "dict", d |-> f]

EmptyDict == PyDict([key \in {} |-> None])

\* Python truthiness, as used by `x or y`
Truthy(p) ==
    CASE p.k = "none" -> FALSE
      [] p.k = "int"  -> p.n # 0
      [] p.k = "dict" -> DOMAIN p.d # {}
      [] p.k = "list" -> Len(p.l) > 0
      [] p.k = "str"  -> Len(p.s) > 0

-----------------------------------------------------------------------------
(* Characters *)

Letters ==
    {"a", "b", "c", "d", "e", "f", "h", "i", "k", "l", "m", "n", "o", "p", "r", "s", "t",
     "u", "v", "w", "y", "G", "I", "S", "T", "U", "X"}

DecDigits == {"0", "1", "2", "3", "4", "5", "6", "7", "8", "9"}

\* U+00B2 SUPERSCRIPT TWO: str.isdigit() and \w accept it, it is no decimal digit
OtherDigits == {"SUP2"}

\* what \w matches (re.UNICODE): alphanumerics and the underscore
WordChars == Letters \cup DecDigits \cup OtherDigits \cup {"_"}

\* what \s and str.strip() treat as whitespace; NBSP is U+00A0
WhiteSpace == {" ", "TAB", "NBSP"}

\* U+200C, U+200F, U+200E: format characters, neither \w nor \s
ZeroWidth == {"ZWNJ", "RLM", "LRM"}

\* FWSOL is U+FF0F FULLWIDTH SOLIDUS, FI is U+FB01 LATIN SMALL LIGATURE FI
Punctuation == {".", "/", "\\", "FWSOL"}

Ligatures == {"FI"}

\* unicodedata.normalize("NFKC", c) of one character
NFKC1(c) ==
    CASE c = "NBSP"  -> <<" ">>
      [] c = "FWSOL" -> <<"/">>
      [] c = "FI"    -> <<"f", "i">>
      [] c = "SUP2"  -> <<"2">>
      [] OTHER       -> <<c>>

\* the concatenation of ss[lo..hi], ss a sequence of sequences
RECURSIVE FlattenRange(_, _, _)
FlattenRange(ss, lo, hi) ==
    IF lo > hi THEN <<>>
    ELSE IF lo = hi THEN ss[lo]
    ELSE LET mid == (lo + hi) \div 2
         IN  FlattenRange(ss, lo, mid) \o FlattenRange(ss, mid + 1, hi)

Flatten(ss) == FlattenRange(ss, 1, Len(ss))

NFKC(s) == Flatten([i \in 1..Len(s) |-> NFKC1(s[i])])

\* s.replace(c, r) for every c of cls, r one character
Replace(s, cls, r) == [i \in 1..Len(s) |-> IF s[i] \in cls THEN r ELSE s[i]]

\* re.sub(r"[cls]+", r, s): every maximal run of characters of cls becomes r
ReSubRuns(s, cls, r) ==
    Flatten([i \in 1..Len(s) |->
                IF s[i] \notin cls THEN <<s[i]>>
                ELSE IF i > 1 /\ s[i - 1] \in cls THEN <<>>
                ELSE r])

\* str.strip(): leading and trailing whitespace removed
Strip(s) ==
    LET keep == {i \in 1..Len(s) : s[i] \notin WhiteSpace}
        first == CHOOSE m \in keep : \A n \in keep : m <= n
        last == CHOOSE m \in keep : \A n \in keep : m >= n
    IN  IF keep = {} THEN <<>> ELSE SubSeq(s, first, last)

Repeat(c, n) == [i \in 1..n |-> c]

\* s[:n]
Prefix(s, n) == SubSeq(s, 1, IF Len(s) < n THEN Len(s) ELSE n)

-----------------------------------------------------------------------------
(* normalize_text, slugify *)

SlugLimit == 120

Unknown == <<"u", "n", "k", "n", "o", "w", "n">>

\* normalize_text(s), s a str or None; the result is a Text
normalize_text(s) ==
    LET s0 == IF Truthy(s) THEN s.s ELSE <<>>
        s1 == NFKC(s0)
        s2 == Replace(s1, ZeroWidth, " ")
        s3 == ReSubRuns(s2, WhiteSpace, <<" ">>)
    IN  Strip(s3)

\* text[:120] if text else "unknown"
SlugNoFallback(t) == Prefix(t, SlugLimit)

SlugResult(t) == IF t # <<>> THEN Prefix(t, SlugLimit) ELSE Unknown

\* re.sub(r"\s+", "_", text)
SlugSpaces(t) == ReSubRuns(t, WhiteSpace, <<"_">>)

\* re.sub(r"[^\w\s\-]+", "", text)
SlugStrip(t) == SelectSeq(t, LAMBDA c : c \in WordChars \cup WhiteSpace \cup {"-"})

slugify(s) == SlugResult(SlugSpaces(SlugStrip(normalize_text(s))))

-----------------------------------------------------------------------------
(* first_key and the helpers of the two extractors *)

MinOf(S) == CHOOSE m \in S : \A n \in S : m <= n

\* d.get(key)
DictGet(d, key) == IF key \in DOMAIN d.d THEN d.d[key] ELSE None

\* a or b
Or(a, b) == IF Truthy(a) THEN a ELSE b

\* first_key(d, keys, default): the value of the first key present and not None
first_key(d, keys, default) ==
    LET hits == {i \in 1..Len(keys) : keys[i] \in DOMAIN d.d /\ d.d[keys[i]].k # "none"}
    IN  IF hits = {} THEN default ELSE d.d[keys[MinOf(hits)]]

DigitChar(d) == <<"0", "1", "2", "3", "4", "5", "6", "7", "8", "9">>[d + 1]

\* str(n) of a non-negative int
RECURSIVE IntStr(_)
IntStr(n) == IF n < 10 THEN <<DigitChar(n)>> ELSE Append(IntStr(n \div 10), DigitChar(n % 10))

\* str(p) of a str or an int
Str(p) == IF p.k = "int" THEN IntStr(p.n) ELSE p.s

\* s.isdigit()
isdigit(s) == Len(s) > 0 /\ \A i \in 1..Len(s) : s[i] \in DecDigits \cup OtherDigits

\* s.zfill(width), s without a sign
zfill(s, width) == IF Len(s) >= width THEN s ELSE Repeat("0", width - Len(s)) \o s

\* what `for x in p` yields; an int is not iterable
Iterable(p) == p.k # "int" /\ p.k # "none"

\* the elements of a finite set in some order
RECURSIVE SeqOfSet(_)
SeqOfSet(S) ==
    IF S = {} THEN <<>>
    ELSE LET x == CHOOSE y \in S : TRUE IN <<x>> \o SeqOfSet(S \ {x})

Iterate(p) ==
    CASE p.k = "list" -> p.l
      [] p.k = "str"  -> [i \in 1..Len(p.s) |-> PyStr(<<p.s[i]>>)]
      [] p.k = "dict" -> LET keys == SeqOfSet(DOMAIN p.d)
                         IN  [i \in 1..Len(keys) |-> PyStr(<<keys[i]>>)]

\* the loop `seen = set(); for x in xs: if x[field] in seen: continue; ...`
RECURSIVE DedupLoop(_, _, _, _, _)
DedupLoop(xs, field, i, seen, out) ==
    IF i > Len(xs) THEN out
    ELSE IF xs[i][field] \in seen THEN DedupLoop(xs, field, i + 1, seen, out)
    ELSE DedupLoop(xs, field, i + 1, seen \cup {xs[i][field]}, Append(out, xs[i]))

KeepAll(xs, field) == xs

\* keeps the last element of each key, at the place of the first
KeepLast(xs, field) ==
    LET firsts == DedupLoop(xs, field, 1, {}, <<>>)
        LastIdx(key) == CHOOSE i \in 1..Len(xs) :
                            /\ xs[i][field] = key
                            /\ \A j \in (i + 1)..Len(xs) : xs[j][field] # key
    IN  [j \in 1..Len(firsts) |-> xs[LastIdx(firsts[j][field])]]

Dedup(xs, field) == DedupLoop(xs, field, 1, {}, <<>>)

\* how a call ends: it returns v, or raises the exception e
Returned(v) == [ok |-> TRUE, v |-> v]

Raised(e) == [ok |-> FALSE, err |-> e]

-----------------------------------------------------------------------------
(* load_industries, after its get_json call *)

IndustrialGroup ==
    <<"I", "n", "d", "u", "s", "t", "r", "i", "a", "l", "G", "r", "o", "u", "p">>

ZfillWidth == 2

TypeKeys == <<"type", "Type">>

CodeKeys == <<"code", "Code">>

IndustryNameKeys ==
    <<"name", "Name", "title", "Title", "lVal", "lval", "lTitle", "value", "Value">>

\* code_str = str(code).strip(); if code_str.isdigit(): code_str = code_str.zfill(2)
CodeStr(code) ==
    LET code_str == Strip(Str(code))
    IN  IF isdigit(code_str) THEN zfill(code_str, ZfillWidth) ELSE code_str

\* one pass of the loop over items: the entries it appends, none or one
IndustryOf(it) ==
    IF it.k # "dict" THEN <<>>
    ELSE LET typ == first_key(it, TypeKeys, PyStr(<<>>))
             code == first_key(it, CodeKeys, None)
         IN  IF ~(typ.k = "str" /\ typ.s = IndustrialGroup) THEN <<>>
             ELSE IF code.k = "none" THEN <<>>
             ELSE LET code_str == CodeStr(code)
                      name == first_key(it, IndustryNameKeys,
                                        PyStr(IndustrialGroup \o <<"_">> \o code_str))
                  IN  <<[code |-> code_str, name |-> normalize_text(PyStr(Str(name)))]>>

\* load_industries(session) given what get_json returned
load_industries(data) ==
    IF data.k # "dict" THEN Raised("AttributeError")
    ELSE LET items == Or(Or(DictGet(data, "staticData"), DictGet(data, "StaticData")),
                         PyList(<<>>))
         IN  IF ~Iterable(items) THEN Raised("TypeError")
             ELSE LET its == Iterate(items)
                      appended == Flatten([i \in 1..Len(its) |-> IndustryOf(its[i])])
                  IN  Returned(Dedup(appended, "code"))

-----------------------------------------------------------------------------
(* load_companies_for_industry, after its get_json call *)

InsCodeKeys == <<"insCode", "InsCode", "i", "Id", "id">>

SymbolKeys == <<"lVal18AFC", "lVal18", "symbol", "Symbol">>

CompanyNameKeys == <<"lVal30", "lSoc30", "lVal30AFC", "name", "Name">>

\* instr = row.get("instrument") or row.get("Instrument") or row
Instr(row) == Or(Or(DictGet(row, "instrument"), DictGet(row, "Instrument")), row)

\* the rest of a pass of the loop over rows, from `if not isinstance(instr, dict)`:
\* the companies it appends, none or one
CompanyOfInstr(instr) ==
    IF instr.k # "dict" THEN <<>>
    ELSE LET ins_code == first_key(instr, InsCodeKeys, None)
             symbol == first_key(instr, SymbolKeys, None)
             name == first_key(instr, CompanyNameKeys, None)
         IN  IF ins_code.k = "none" \/ symbol.k = "none" THEN <<>>
             ELSE <<[id |-> Strip(Str(ins_code)),
                     symbol |-> normalize_text(PyStr(Str(symbol))),
                     name |-> IF name.k # "none"
                              THEN normalize_text(PyStr(Str(name)))
                              ELSE <<>>]>>

\* one pass of the loop over rows
CompanyOf(row) == IF row.k # "dict" THEN <<>> ELSE CompanyOfInstr(Instr(row))

\* load_companies_for_industry(session, industry_code) given what get_json returned
load_companies_for_industry(data) ==
    IF data.k # "dict" THEN Raised("AttributeError")
    ELSE LET rows == Or(Or(DictGet(data, "relatedCompany"), DictGet(data, "RelatedCompany")),
                        PyList(<<>>))
         IN  IF ~Iterable(rows) THEN Raised("TypeError")
             ELSE LET rs == Iterate(rows)
                      appended == Flatten([i \in 1..Len(rs) |-> CompanyOf(rs[i])])
                  IN  Returned(Dedup(appended, "id"))

-----------------------------------------------------------------------------
(* make_session and get_json: one call of get_json, one GET per step *)

\* Retry(total=5): the retries allowed after the first attempt
RetryTotal == 5

\* status_forcelist
StatusForcelist == {429, 500, 502, 503, 504}

\* Retry.RETRY_AFTER_STATUS_CODES: retried when the response has a Retry-After header
RetryAfterStatusCodes == {413, 429, 503}

MaxUrls == 2

NoOutcome == [kind |-> "none", status |-> 0, retry_after |-> FALSE, body |-> "none"]

TransportError == [kind |-> "transport", status |-> 0, retry_after |-> FALSE, body |-> "none"]

\* body: "json" when r.json() parses it, "text" when only json.loads(r.text) does,
\* "bad" when neither does
Responses ==
    {[kind |-> "response", status |-> 200, retry_after |-> FALSE, body |-> b] :
        b \in {"json", "text", "bad"}}
    \cup
    {[kind |-> "response", status |-> st, retry_after |-> ra, body |-> "bad"] :
        st \in {404, 413, 429, 500, 502, 503, 504}, ra \in BOOLEAN}

\* the JSON document URL u serves
Payload(u) == PyDict("url" :> PyInt(u))

NoError == [url |-> 0, err |-> "none"]

IsRetryAnyError(resp, total) == resp.status >= 400

\* Retry.is_retry(method, status_code, has_retry_after), method GET
IsRetry(resp, total) ==
    \/ resp.status \in StatusForcelist
    \/ total # 0 /\ resp.retry_after /\ resp.status \in RetryAfterStatusCodes

\* Retry.increment(...).is_exhausted(): the decremented counter is below zero
Exhausted(total) == total - 1 < 0

\* `for url in urls` with urls empty: the raise after the loop, last_err None
GetJsonNoUrls ==
    /\ g_pc = "call" /\ g_n = 0
    /\ g_pc' = "raised"
    /\ g_result' = [ok |-> FALSE, err |-> "RuntimeError", last_err |-> g_last_err]
    /\ UNCHANGED <<g_n, g_url, g_total, g_prev, g_sent, g_final, g_last_err>>

\* the first pass of the loop: session.get starts with a fresh Retry
GetJsonEnter ==
    /\ g_pc = "call" /\ g_n > 0
    /\ g_pc' = "get" /\ g_url' = 1 /\ g_total' = RetryTotal
    /\ UNCHANGED <<g_n, g_prev, g_sent, g_final, g_last_err, g_result>>

NextUrlStops(err) ==
    /\ g_last_err' = [url |-> g_url, err |-> err]
    /\ g_final' = [g_final EXCEPT ![g_url] = err]
    /\ g_pc' = "raised"
    /\ g_result' = [ok |-> FALSE, err |-> "RuntimeError", last_err |-> g_last_err']
    /\ g_prev' = NoOutcome
    /\ UNCHANGED <<g_url, g_total>>

\* except Exception as e: last_err = e; continue -- and the raise after the last URL
NextUrl(err) ==
    /\ g_last_err' = [url |-> g_url, err |-> err]
    /\ g_final' = [g_final EXCEPT ![g_url] = err]
    /\ IF g_url < g_n
       THEN /\ g_pc' = "get" /\ g_url' = g_url + 1 /\ g_total' = RetryTotal
            /\ g_prev' = NoOutcome
            /\ UNCHANGED g_result
       ELSE /\ g_pc' = "raised"
            /\ g_result' = [ok |-> FALSE, err |-> "RuntimeError", last_err |-> g_last_err']
            /\ g_prev' = NoOutcome
            /\ UNCHANGED <<g_url, g_total>>

ReturnJson ==
    /\ g_pc' = "returned"
    /\ g_result' = Returned(Payload(g_url))
    /\ g_final' = [g_final EXCEPT ![g_url] = "ok"]
    /\ g_prev' = NoOutcome
    /\ UNCHANGED <<g_url, g_total, g_last_err>>

\* the GET is sent again after the backoff sleep
RetryGet(outcome) ==
    /\ g_total' = g_total - 1
    /\ g_prev' = outcome
    /\ UNCHANGED <<g_pc, g_url, g_final, g_last_err, g_result>>

\* r.raise_for_status(); r.json(), else json.loads(r.text)
HandleResponse(resp) ==
    IF resp.status >= 400 THEN NextUrl("HTTPError")
    ELSE IF resp.body \in {"json", "text"} THEN ReturnJson
    ELSE NextUrl("JSONDecodeError")

\* a GET that meets a connection, timeout or read error
GetTransportError ==
    /\ g_pc = "get"
    /\ g_sent' = [g_sent EXCEPT ![g_url] = @ + 1]
    /\ IF Exhausted(g_total) THEN NextUrl("ConnectionError") ELSE RetryGet(TransportError)
    /\ UNCHANGED g_n

\* a GET answered with a status the Retry policy retries
GetRetriedStatus ==
    /\ g_pc = "get"
    /\ \E resp \in Responses :
        /\ IsRetry(resp, g_total)
        /\ g_sent' = [g_sent EXCEPT ![g_url] = @ + 1]
        /\ IF Exhausted(g_total) THEN HandleResponse(resp) ELSE RetryGet(resp)
    /\ UNCHANGED g_n

\* a GET answered with any other status: session.get returns the response
GetResponse ==
    /\ g_pc = "get"
    /\ \E resp \in Responses :
        /\ ~IsRetry(resp, g_total)
        /\ g_sent' = [g_sent EXCEPT ![g_url] = @ + 1]
        /\ HandleResponse(resp)
    /\ UNCHANGED g_n

-----------------------------------------------------------------------------
(* The disk, ensure_unique_path, write_industry_csv, write_all_csv *)

IndustriesDir == <<"i", "n", "d", "u", "s", "t", "r", "i", "e", "s">>

CsvExt == <<".", "c", "s", "v">>

AllCsvPath ==
    <<"a", "l", "l", "_", "c", "o", "m", "p", "a", "n", "i", "e", "s", "_",
      "w", "i", "t", "h", "_", "i", "n", "d", "u", "s", "t", "r", "y">> \o CsvExt

IndustryHeader == <<<<"i", "d">>, <<"s", "y", "m", "b", "o", "l">>, <<"n", "a", "m", "e">>>>

AllHeader == <<<<"i", "n", "d", "u", "s", "t", "r", "y">>>> \o IndustryHeader

\* os.path.exists(path): a file or a directory is there
exists(fs, ds, path) == path \in ds \/ \E f \in fs : f.path = path

\* the rows of the file at path
Content(fs, path) == (CHOOSE f \in fs : f.path = path).rows

\* open(path, "w") ... close: the file is created or replaced
WriteFile(fs, path, rows) ==
    {f \in fs : f.path # path} \cup {[path |-> path, rows |-> rows]}

\* os.path.join(a, b), b relative
join(a, b) ==
    IF a = <<>> THEN b
    ELSE IF a[Len(a)] = "/" THEN a \o b
    ELSE a \o <<"/">> \o b

\* os.path.splitext(path): the extension starts at the last dot of the last
\* component, leading dots of the component aside
splitext(path) ==
    LET seps == {i \in 1..Len(path) : path[i] = "/"}
        dots == {i \in 1..Len(path) : path[i] = "."}
        sepIndex == IF seps = {} THEN 0 ELSE CHOOSE i \in seps : \A j \in seps : j <= i
        dotIndex == IF dots = {} THEN 0 ELSE CHOOSE i \in dots : \A j \in dots : j <= i
    IN  IF dotIndex > sepIndex
           /\ \E i \in (sepIndex + 1)..(dotIndex - 1) : path[i] # "."
        THEN [base |-> SubSeq(path, 1, dotIndex - 1),
              ext |-> SubSeq(path, dotIndex, Len(path))]
        ELSE [base |-> path, ext |-> <<>>]

\* the while loop of ensure_unique_path, from i
RECURSIVE UniqueFrom(_, _, _, _, _)
UniqueFrom(fs, ds, base, ext, i) ==
    LET p == base \o <<"_">> \o IntStr(i) \o ext
    IN  IF ~exists(fs, ds, p) THEN p ELSE UniqueFrom(fs, ds, base, ext, i + 1)

UniquePathOnce(fs, ds, path) ==
    IF ~exists(fs, ds, path) THEN path
    ELSE splitext(path).base \o <<"_">> \o IntStr(2) \o splitext(path).ext

ensure_unique_path(fs, ds, path) ==
    IF ~exists(fs, ds, path) THEN path
    ELSE UniqueFrom(fs, ds, splitext(path).base, splitext(path).ext, 2)

\* the path write_industry_csv writes: os.path.join(out_dir, slug + ".csv"), made unique
IndustryCsvPath(fs, ds, industry_name, out_dir) ==
    ensure_unique_path(fs, ds, join(out_dir, slugify(PyStr(industry_name)) \o CsvExt))

\* the rows write_industry_csv writes
IndustryCsvRows(companies) ==
    <<IndustryHeader>> \o [i \in 1..Len(companies) |->
        <<companies[i].id, companies[i].symbol, companies[i].name>>]

AllCsvRowsDedup(rows) ==
    LET kept == Dedup(rows, "id")
    IN  <<AllHeader>> \o [i \in 1..Len(kept) |->
            <<kept[i].industry, kept[i].id, kept[i].symbol, kept[i].name>>]

\* the rows write_all_csv writes
AllCsvRows(rows) ==
    <<AllHeader>> \o [i \in 1..Len(rows) |->
        <<rows[i].industry, rows[i].id, rows[i].symbol, rows[i].name>>]

-----------------------------------------------------------------------------
(* main *)

\* what a call of get_json ends with: the JSON of a response, or the RuntimeError
GetJsonOutcomes(responses) == {Raised("RuntimeError")} \cup {Returned(d) : d \in responses}

StaticDataRequest == [endpoint |-> "GetStaticData", code |-> <<>>]

RelatedCompanyRequest(code) == [endpoint |-> "GetRelatedCompany", code |-> code]

\* the rows main appends to all_rows for one industry
JoinedRows(name, companies) ==
    [i \in 1..Len(companies) |->
        [industry |-> name, id |-> companies[i].id, symbol |-> companies[i].symbol,
         name |-> companies[i].name]]

MainItemA1 ==
    PyDict(("type" :> PyStr(IndustrialGroup)) @@ ("code" :> PyStr(<<"1">>))
           @@ ("name" :> PyStr(<<"a">>)))

MainItemA2 ==
    PyDict(("type" :> PyStr(IndustrialGroup)) @@ ("code" :> PyInt(2))
           @@ ("name" :> PyStr(<<"a">>)))

MainItemB3 ==
    PyDict(("Type" :> PyStr(IndustrialGroup)) @@ ("Code" :> PyStr(<<"3">>))
           @@ ("Name" :> PyStr(<<"a", "_", "2">>)))

MaxIndustries == 3

RECURSIVE Lists(_, _)
Lists(items, n) ==
    IF n = 0 THEN {<<>>}
    ELSE LET shorter == Lists(items, n - 1)
         IN  shorter \cup {Append(l, x) : l \in shorter, x \in items}

\* what the static-data endpoint may answer
StaticResponses ==
    {PyDict("staticData" :> PyList(l)) :
        l \in Lists({MainItemA1, MainItemA2, MainItemB3}, MaxIndustries)}
    \cup {PyList(<<>>)}

Instrument7 ==
    PyDict(("insCode" :> PyStr(<<"7">>)) @@ ("lVal18AFC" :> PyStr(<<"S">>))
           @@ ("lVal30" :> PyStr(<<"a">>)))

Instrument7T == PyDict(("insCode" :> PyInt(7)) @@ ("lVal18" :> PyStr(<<"T">>)))

Instrument8 == PyDict(("i" :> PyStr(<<"8">>)) @@ ("symbol" :> PyStr(<<"U">>)))

\* what the related-company endpoint may answer
RelatedResponses ==
    {PyDict("relatedCompany" :> PyList(<<>>)),
     PyDict("relatedCompany" :> PyList(<<PyDict("instrument" :> Instrument7)>>)),
     PyDict("RelatedCompany" :> PyList(<<PyDict("Instrument" :> Instrument7),
                                         PyDict("instrument" :> Instrument7T),
                                         Instrument8>>)),
     PyList(<<>>)}

OldRows == <<<<<<"o", "l", "d">>>>>>

AFile == join(IndustriesDir, <<"a">> \o CsvExt)

A2File == join(IndustriesDir, <<"a", "_", "2">> \o CsvExt)

\* the disks main may start on
InitialDisks ==
    {[files |-> {}, dirs |-> {}],
     [files |-> {[path |-> AFile, rows |-> OldRows]}, dirs |-> {IndustriesDir}],
     [files |-> {[path |-> AFile, rows |-> OldRows], [path |-> A2File, rows |-> OldRows],
                 [path |-> AllCsvPath, rows |-> OldRows]},
      dirs |-> {IndustriesDir}],
     [files |-> {[path |-> AllCsvPath, rows |-> OldRows]},
      dirs |-> {IndustriesDir, A2File}]}

\* load_industries(session): the get_json call and the extraction
LoadIndustriesResult(outcome) == IF outcome.ok THEN load_industries(outcome.v) ELSE outcome

\* load_companies_for_industry(session, code): the get_json call and the extraction
LoadCompaniesResult(outcome) ==
    IF outcome.ok THEN load_companies_for_industry(outcome.v) ELSE outcome

\* get_json or the extraction raises in load_industries: main ends with the exception
LoadIndustriesRaises ==
    /\ pc = "start"
    /\ \E outcome \in GetJsonOutcomes(StaticResponses) :
        LET res == LoadIndustriesResult(outcome)
        IN  /\ ~res.ok
            /\ error' = res.err
    /\ requests' = Append(requests, StaticDataRequest)
    /\ pc' = "failed"
    /\ UNCHANGED <<industries, idx, all_rows, files, dirs, files0, loaded, written, stdout>>

NoIndustriesGoesOn ==
    /\ pc = "start"
    /\ \E outcome \in GetJsonOutcomes(StaticResponses) :
        LET res == LoadIndustriesResult(outcome)
        IN  /\ res.ok
            /\ res.v = <<>>
            /\ industries' = res.v
    /\ requests' = Append(requests, StaticDataRequest)
    /\ idx' = 1
    /\ pc' = "loop"
    /\ UNCHANGED <<all_rows, files, dirs, files0, loaded, written, stdout, error>>

\* if not industries: print("No industries found."); return
NoIndustries ==
    /\ pc = "start"
    /\ \E outcome \in GetJsonOutcomes(StaticResponses) :
        LET res == LoadIndustriesResult(outcome)
        IN  /\ res.ok
            /\ res.v = <<>>
            /\ industries' = res.v
    /\ requests' = Append(requests, StaticDataRequest)
    /\ stdout' = Append(stdout, [msg |-> "No industries found."])
    /\ pc' = "done"
    /\ UNCHANGED <<idx, all_rows, files, dirs, files0, loaded, written, error>>

\* industries = load_industries(session), not empty: the for loop starts
LoadIndustries ==
    /\ pc = "start"
    /\ \E outcome \in GetJsonOutcomes(StaticResponses) :
        LET res == LoadIndustriesResult(outcome)
        IN  /\ res.ok
            /\ res.v # <<>>
            /\ industries' = res.v
    /\ requests' = Append(requests, StaticDataRequest)
    /\ idx' = 1
    /\ pc' = "loop"
    /\ UNCHANGED <<all_rows, files, dirs, files0, loaded, written, stdout, error>>

LoadCompaniesRaisesFlush ==
    /\ pc = "loop" /\ idx <= Len(industries)
    /\ \E outcome \in GetJsonOutcomes(RelatedResponses) :
        LET res == LoadCompaniesResult(outcome)
        IN  /\ ~res.ok
            /\ error' = res.err
    /\ requests' = Append(requests, RelatedCompanyRequest(industries[idx].code))
    /\ files' = WriteFile(files, AllCsvPath, AllCsvRows(all_rows))
    /\ pc' = "failed"
    /\ UNCHANGED <<industries, idx, all_rows, dirs, files0, loaded, written, stdout>>

\* a pass of the loop in which load_companies_for_industry raises
LoadCompaniesRaises ==
    /\ pc = "loop" /\ idx <= Len(industries)
    /\ \E outcome \in GetJsonOutcomes(RelatedResponses) :
        LET res == LoadCompaniesResult(outcome)
        IN  /\ ~res.ok
            /\ error' = res.err
    /\ requests' = Append(requests, RelatedCompanyRequest(industries[idx].code))
    /\ pc' = "failed"
    /\ UNCHANGED <<industries, idx, all_rows, files, dirs, files0, loaded, written, stdout>>

SkipEmptyStops ==
    /\ pc = "loop" /\ idx <= Len(industries)
    /\ \E outcome \in GetJsonOutcomes(RelatedResponses) :
        LET res == LoadCompaniesResult(outcome)
        IN  res.ok /\ res.v = <<>> /\ loaded' = Append(loaded, res.v)
    /\ requests' = Append(requests, RelatedCompanyRequest(industries[idx].code))
    /\ idx' = Len(industries) + 1
    /\ UNCHANGED <<pc, industries, all_rows, files, dirs, files0, written, stdout, error>>

\* a pass of the loop with no company: if not companies: continue
SkipEmpty ==
    /\ pc = "loop" /\ idx <= Len(industries)
    /\ \E outcome \in GetJsonOutcomes(RelatedResponses) :
        LET res == LoadCompaniesResult(outcome)
        IN  res.ok /\ res.v = <<>> /\ loaded' = Append(loaded, res.v)
    /\ requests' = Append(requests, RelatedCompanyRequest(industries[idx].code))
    /\ idx' = idx + 1
    /\ UNCHANGED <<pc, industries, all_rows, files, dirs, files0, written, stdout, error>>

\* a pass of the loop with companies: the industry's CSV, all_rows, the progress line
WriteIndustry ==
    /\ pc = "loop" /\ idx <= Len(industries)
    /\ \E outcome \in GetJsonOutcomes(RelatedResponses) :
        LET res == LoadCompaniesResult(outcome)
            name == industries[idx].name
            code == industries[idx].code
            ds == dirs \cup {IndustriesDir}
            out_path == IndustryCsvPath(files, ds, name, IndustriesDir)
        IN  /\ res.ok
            /\ res.v # <<>>
            /\ loaded' = Append(loaded, res.v)
            /\ dirs' = ds
            /\ files' = WriteFile(files, out_path, IndustryCsvRows(res.v))
            /\ written' = Append(written, [path |-> out_path, name |-> name,
                                           rows |-> IndustryCsvRows(res.v)])
            /\ all_rows' = all_rows \o JoinedRows(name, res.v)
            /\ stdout' = Append(stdout, [msg |-> "progress", idx |-> idx,
                                         of |-> Len(industries), name |-> name,
                                         code |-> code, n |-> Len(res.v),
                                         path |-> out_path])
    /\ requests' = Append(requests, RelatedCompanyRequest(industries[idx].code))
    /\ idx' = idx + 1
    /\ UNCHANGED <<pc, industries, files0, error>>

\* a pass of the loop whose open() in write_industry_csv raises OSError
WriteIndustryRaises ==
    /\ pc = "loop" /\ idx <= Len(industries)
    /\ \E outcome \in GetJsonOutcomes(RelatedResponses) :
        LET res == LoadCompaniesResult(outcome)
        IN  res.ok /\ res.v # <<>> /\ loaded' = Append(loaded, res.v)
    /\ dirs' = dirs \cup {IndustriesDir}
    /\ requests' = Append(requests, RelatedCompanyRequest(industries[idx].code))
    /\ error' = "OSError"
    /\ pc' = "failed"
    /\ UNCHANGED <<industries, idx, all_rows, files, files0, written, stdout>>

\* after the loop, if all_rows: write_all_csv and the summary line
WriteAll ==
    /\ pc = "loop" /\ idx > Len(industries)
    /\ all_rows # <<>>
    /\ files' = WriteFile(files, AllCsvPath, AllCsvRows(all_rows))
    /\ written' = Append(written, [path |-> AllCsvPath, name |-> <<>>,
                                   rows |-> AllCsvRows(all_rows)])
    /\ stdout' = Append(stdout, [msg |-> "ALL", total |-> Len(all_rows)])
    /\ pc' = "done"
    /\ UNCHANGED <<industries, idx, all_rows, dirs, files0, requests, loaded, error>>

\* after the loop, if all_rows, and open() in write_all_csv raises OSError
WriteAllRaises ==
    /\ pc = "loop" /\ idx > Len(industries)
    /\ all_rows # <<>>
    /\ error' = "OSError"
    /\ pc' = "failed"
    /\ UNCHANGED <<industries, idx, all_rows, files, dirs, files0, requests, loaded,
                   written, stdout>>

\* after the loop, else: print("No companies collected.")
NoCompanies ==
    /\ pc = "loop" /\ idx > Len(industries)
    /\ all_rows = <<>>
    /\ stdout' = Append(stdout, [msg |-> "No companies collected."])
    /\ pc' = "done"
    /\ UNCHANGED <<industries, idx, all_rows, files, dirs, files0, requests, loaded,
                   written, error>>

-----------------------------------------------------------------------------
(* slugify applied to bounded inputs *)

MaxTextLen == 3

SlugAlphabet == {"a", "2", "_", "-", " ", "TAB", "ZWNJ", ".", "/", "NBSP", "FWSOL", "FI"}

\* texts around the truncation limit, before and after NFKC doubles a ligature
LongTexts ==
    {p \o Repeat(c, n) :
        p \in Lists({"a", " ", "."}, 1),
        c \in {"a", "FI", "-"},
        n \in {SlugLimit \div 2, SlugLimit - 1, SlugLimit, SlugLimit + 1}}

SlugInputs ==
    {None} \cup {PyStr(t) : t \in Lists(SlugAlphabet, MaxTextLen) \cup LongTexts}

Slugify ==
    /\ s_pc = "call"
    /\ slug' = slugify(text)
    /\ s_pc' = "done"
    /\ UNCHANGED text

-----------------------------------------------------------------------------
(* The extractors applied to bounded inputs *)

\* the dict of a sequence of <<key, value>> pairs with distinct keys
DictOf(pairs) ==
    PyDict([key \in {pairs[i][1] : i \in 1..Len(pairs)} |->
                pairs[CHOOSE i \in 1..Len(pairs) : pairs[i][1] = key][2]])

MaxItems == 3

IG == PyStr(IndustrialGroup)

\* the elements the static-data list is made of
ItemSamples ==
    {PyStr(<<"a">>),
     DictOf(<<<<"type", IG>>, <<"code", PyStr(<<"1">>)>>, <<"name", PyStr(<<"a">>)>>>>),
     DictOf(<<<<"Type", IG>>, <<"Code", PyInt(1)>>, <<"Name", PyStr(<<"f">>)>>>>),
     DictOf(<<<<"type", IG>>, <<"code", PyStr(<<"0", "1">>)>>, <<"title", PyStr(<<"i">>)>>>>),
     DictOf(<<<<"type", IG>>, <<"code", PyStr(<<" ", "1">>)>>, <<"name", PyStr(<<"n">>)>>>>),
     DictOf(<<<<"type", IG>>, <<"code", PyStr(<<"1", "2">>)>>,
              <<"name", PyStr(<<" ", "a", "ZWNJ", "f", " ">>)>>>>),
     DictOf(<<<<"type", IG>>, <<"code", PyStr(<<"X", "1">>)>>>>),
     DictOf(<<<<"type", PyStr(<<"X">>)>>, <<"Type", IG>>, <<"code", PyStr(<<"2">>)>>,
              <<"name", PyStr(<<"a">>)>>>>),
     DictOf(<<<<"type", IG>>, <<"code", None>>, <<"Code", PyStr(<<"2">>)>>,
              <<"name", None>>, <<"value", PyStr(<<"k">>)>>>>),
     DictOf(<<<<"type", None>>, <<"Type", IG>>, <<"code", PyStr(<<"1", "2", "3">>)>>,
              <<"lVal", PyInt(7)>>>>),
     DictOf(<<<<"type", IG>>, <<"name", PyStr(<<"a">>)>>>>),
     DictOf(<<<<"type", IG>>, <<"code", PyStr(<<"SUP2">>)>>, <<"name", PyStr(<<"u">>)>>>>)}

\* what get_json may hand to load_industries
IndustryInputs ==
    {DictOf(<<<<"staticData", PyList(l)>>>>) : l \in Lists(ItemSamples, MaxItems)}
    \cup {DictOf(<<<<"StaticData", PyList(l)>>>>) : l \in Lists(ItemSamples, 1)}
    \cup {DictOf(<<<<"staticData", PyList(<<>>)>>, <<"StaticData", PyList(l)>>>>) :
            l \in Lists(ItemSamples, 1)}
    \cup {EmptyDict, PyList(<<>>), DictOf(<<<<"staticData", PyInt(5)>>>>),
          DictOf(<<<<"staticData", PyStr(<<"a">>)>>>>)}

LoadIndustriesCall ==
    /\ li_pc = "call"
    /\ li_out' = load_industries(li_data)
    /\ li_pc' = "done"
    /\ UNCHANGED li_data

MaxRows == 3

\* the rows the related-company list is made of
RowSamples ==
    {PyStr(<<"a">>),
     DictOf(<<<<"instrument", Instrument7>>>>),
     DictOf(<<<<"Instrument", Instrument7T>>>>),
     DictOf(<<<<"insCode", PyStr(<<"8">>)>>, <<"symbol", PyStr(<<"U">>)>>,
              <<"name", PyStr(<<"f">>)>>>>),
     DictOf(<<<<"instrument", PyStr(<<"X">>)>>, <<"insCode", PyStr(<<"9">>)>>,
              <<"symbol", PyStr(<<"S">>)>>>>),
     DictOf(<<<<"instrument", EmptyDict>>, <<"Id", PyStr(<<" ", "7", " ">>)>>,
              <<"Symbol", PyStr(<<" ", "S", "ZWNJ">>)>>>>),
     DictOf(<<<<"instrument", DictOf(<<<<"insCode", PyStr(<<"9">>)>>>>)>>>>),
     DictOf(<<<<"instrument",
                DictOf(<<<<"insCode", None>>, <<"i", PyStr(<<"8">>)>>,
                         <<"lVal18AFC", None>>, <<"symbol", PyStr(<<"T">>)>>,
                         <<"name", PyStr(<<"k">>)>>>>)>>>>),
     DictOf(<<<<"instrument", DictOf(<<<<"symbol", PyStr(<<"S">>)>>>>)>>,
              <<"insCode", PyStr(<<"5">>)>>>>),
     DictOf(<<<<"instrument", None>>,
              <<"Instrument", DictOf(<<<<"id", PyStr(<<"9">>)>>,
                                       <<"Symbol", PyStr(<<"U">>)>>>>)>>>>)}

\* what get_json may hand to load_companies_for_industry
CompanyInputs ==
    {DictOf(<<<<"relatedCompany", PyList(l)>>>>) : l \in Lists(RowSamples, MaxRows)}
    \cup {DictOf(<<<<"RelatedCompany", PyList(l)>>>>) : l \in Lists(RowSamples, 1)}
    \cup {DictOf(<<<<"relatedCompany", PyList(<<>>)>>, <<"RelatedCompany", PyList(l)>>>>) :
            l \in Lists(RowSamples, 1)}
    \cup {EmptyDict, PyList(<<>>), DictOf(<<<<"relatedCompany", PyInt(5)>>>>),
          DictOf(<<<<"relatedCompany", PyStr(<<"a">>)>>>>)}

LoadCompaniesCall ==
    /\ lc_pc = "call"
    /\ lc_out' = load_companies_for_industry(lc_data)
    /\ lc_pc' = "done"
    /\ UNCHANGED lc_data

-----------------------------------------------------------------------------
(* Specifications *)

SlugIdle == text = None /\ slug = <<>> /\ s_pc = "idle"

FetchIdle ==
    /\ g_pc = "idle" /\ g_n = 0 /\ g_url = 0 /\ g_total = 0 /\ g_prev = NoOutcome
    /\ g_sent = <<>> /\ g_final = <<>> /\ g_last_err = NoError /\ g_result = None

IndIdle == li_data = None /\ li_out = None /\ li_pc = "idle"

CompIdle == lc_data = None /\ lc_out = None /\ lc_pc = "idle"

MainIdle ==
    /\ pc = "idle" /\ industries = <<>> /\ idx = 0 /\ all_rows = <<>>
    /\ files = {} /\ dirs = {} /\ files0 = {} /\ requests = <<>> /\ loaded = <<>>
    /\ written = <<>> /\ stdout = <<>> /\ error = "none"

\* slugify is called with a text
SlugInit == text \in SlugInputs /\ slug = <<>> /\ s_pc = "call"

\* get_json(session, urls) is called with g_n URLs
FetchInit ==
    /\ g_n \in 0..MaxUrls
    /\ g_pc = "call" /\ g_url = 0 /\ g_total = 0 /\ g_prev = NoOutcome
    /\ g_sent = [u \in 1..g_n |-> 0] /\ g_final = [u \in 1..g_n |-> "none"]
    /\ g_last_err = NoError /\ g_result = None

\* load_industries extracts from the JSON get_json returned
IndInit == li_data \in IndustryInputs /\ li_out = None /\ li_pc = "call"

\* load_companies_for_industry extracts from the JSON get_json returned
CompInit == lc_data \in CompanyInputs /\ lc_out = None /\ lc_pc = "call"

\* main() is called on some disk
MainInit ==
    /\ pc = "start" /\ industries = <<>> /\ idx = 0 /\ all_rows = <<>>
    /\ \E disk \in InitialDisks : files = disk.files /\ dirs = disk.dirs /\ files0 = disk.files
    /\ requests = <<>> /\ loaded = <<>> /\ written = <<>> /\ stdout = <<>>
    /\ error = "none"

SlugNext == Slugify /\ UNCHANGED <<fetchVars, indVars, compVars, mainVars>>

FetchNext ==
    \/ GetJsonNoUrls /\ UNCHANGED <<slugVars, indVars, compVars, mainVars>>
    \/ GetJsonEnter /\ UNCHANGED <<slugVars, indVars, compVars, mainVars>>
    \/ GetTransportError /\ UNCHANGED <<slugVars, indVars, compVars, mainVars>>
    \/ GetRetriedStatus /\ UNCHANGED <<slugVars, indVars, compVars, mainVars>>
    \/ GetResponse /\ UNCHANGED <<slugVars, indVars, compVars, mainVars>>

Next ==
    \/ LoadIndustriesRaises /\ UNCHANGED <<slugVars, fetchVars, indVars, compVars>>
    \/ NoIndustries /\ UNCHANGED <<slugVars, fetchVars, indVars, compVars>>
    \/ LoadIndustries /\ UNCHANGED <<slugVars, fetchVars, indVars, compVars>>
    \/ LoadCompaniesRaises /\ UNCHANGED <<slugVars, fetchVars, indVars, compVars>>
    \/ SkipEmpty /\ UNCHANGED <<slugVars, fetchVars, indVars, compVars>>
    \/ WriteIndustry /\ UNCHANGED <<slugVars, fetchVars, indVars, compVars>>
    \/ WriteIndustryRaises /\ UNCHANGED <<slugVars, fetchVars, indVars, compVars>>
    \/ WriteAll /\ UNCHANGED <<slugVars, fetchVars, indVars, compVars>>
    \/ WriteAllRaises /\ UNCHANGED <<slugVars, fetchVars, indVars, compVars>>
    \/ NoCompanies /\ UNCHANGED <<slugVars, fetchVars, indVars, compVars>>

IndNext == LoadIndustriesCall /\ UNCHANGED <<slugVars, fetchVars, compVars, mainVars>>

CompNext == LoadCompaniesCall /\ UNCHANGED <<slugVars, fetchVars, indVars, mainVars>>

Init == MainInit /\ SlugIdle /\ FetchIdle /\ IndIdle /\ CompIdle

InitSlug == SlugInit /\ FetchIdle /\ IndIdle /\ CompIdle /\ MainIdle

InitFetch == FetchInit /\ SlugIdle /\ IndIdle /\ CompIdle /\ MainIdle

InitIndustries == IndInit /\ SlugIdle /\ FetchIdle /\ CompIdle /\ MainIdle

InitCompanies == CompInit /\ SlugIdle /\ FetchIdle /\ IndIdle /\ MainIdle

\* main()
Spec == Init /\ [][Next]_vars

\* slugify(text)
SpecSlug == InitSlug /\ [][SlugNext]_vars

\* get_json(session, urls)
SpecFetch == InitFetch /\ [][FetchNext]_vars

\* the extraction of load_industries
SpecIndustries == InitIndustries /\ [][IndNext]_vars

\* the extraction of load_companies_for_industry
SpecCompanies == InitCompanies /\ [][CompNext]_vars

-----------------------------------------------------------------------------
(* Properties *)

\* the n-th smallest element of a finite set of integers
NthOf(S, n) == CHOOSE i \in S : Cardinality({j \in S : j <= i}) = n

SortedSeq(S) == [n \in 1..Cardinality(S) |-> NthOf(S, n)]

Failures == {"ConnectionError", "HTTPError", "JSONDecodeError"}

\* C1: get_json tries the URLs strictly in list order; it returns the JSON of the
\* first URL whose request succeeds and whose body parses and contacts no later
\* URL; a URL that fails (transport error, HTTP error status, un-parseable body)
\* makes it go on to the next; when every URL failed it raises a RuntimeError that
\* carries the error of the last URL.
C1_FirstSuccessInOrder ==
    g_pc # "idle" =>
        /\ \A u, w \in 1..g_n : (u < w /\ g_sent[w] > 0) => g_final[u] \in Failures
        /\ \A u \in 1..g_n : (g_final[u] \in Failures /\ u < g_n) => g_url > u
        /\ \A u \in 1..g_n : g_final[u] # "none" => g_sent[u] > 0
        /\ g_pc = "returned" =>
            /\ g_result = Returned(Payload(g_url))
            /\ g_final[g_url] = "ok"
            /\ \A u \in 1..(g_url - 1) : g_final[u] \in Failures
            /\ \A w \in (g_url + 1)..g_n : g_sent[w] = 0
        /\ g_pc = "raised" =>
            /\ ~g_result.ok /\ g_result.err = "RuntimeError"
            /\ \A u \in 1..g_n : g_final[u] \in Failures
            /\ g_result.last_err =
                 IF g_n = 0 THEN NoError ELSE [url |-> g_n, err |-> g_final[g_n]]

\* C1 happens: the second URL answers after the first one's body did not parse
C1_Witness ==
    g_pc = "returned" /\ g_url = 2 /\ g_final[1] = "JSONDecodeError" /\ g_sent[2] = 1

\* a GET of the running session.get is about to be sent again
RetryPending == g_pc = "get" /\ g_prev # NoOutcome

\* C2 as stated: at most 5 GETs per URL, retried only on transport errors and on
\* the statuses 429, 500, 502, 503, 504
C2_AtMostFiveAttempts ==
    g_pc # "idle" =>
        /\ \A u \in 1..g_n : g_sent[u] <= 5
        /\ RetryPending =>
            \/ g_prev.kind = "transport"
            \/ g_prev.status \in {429, 500, 502, 503, 504}

\* C2, amended: at most 6 GETs per URL, the first and 5 retries; a GET is retried
\* only after a transport error, a status 429, 500, 502, 503 or 504, or a 413
\* that carries a Retry-After header
C2_AtMostSixAttempts ==
    g_pc # "idle" =>
        /\ \A u \in 1..g_n : g_sent[u] <= RetryTotal + 1
        /\ RetryPending =>
            /\ g_sent[g_url] >= 1
            /\ \/ g_prev.kind = "transport"
               \/ g_prev.status \in {429, 500, 502, 503, 504}
               \/ g_prev.status = 413 /\ g_prev.retry_after

\* C2 happens: a URL has been sent its sixth GET
C2_Witness == g_pc # "idle" /\ \E u \in 1..g_n : g_sent[u] = RetryTotal + 1

\* the rows of the combined CSV that the passes of the loop call for
ExpectedAllRows ==
    Flatten([i \in 1..Len(loaded) |->
        [j \in 1..Len(loaded[i]) |->
            <<industries[i].name, loaded[i][j].id, loaded[i][j].symbol,
              loaded[i][j].name>>]])

\* C3: when main completes and a company was collected, the combined CSV holds one
\* row per company of every industry with companies, with the industry's name, in
\* industry order and then company order, with no deduplication across industries
C3_CombinedCsv ==
    (pc = "done" /\ \E i \in 1..Len(loaded) : loaded[i] # <<>>) =>
        /\ \E f \in files : f.path = AllCsvPath
        /\ Content(files, AllCsvPath) = <<AllHeader>> \o ExpectedAllRows

\* C3 happens: a company id returned under two industries is in the file twice
C3_Witness ==
    /\ pc = "done"
    /\ \E i, j \in 1..Len(loaded) :
        /\ i < j /\ loaded[i] # <<>> /\ loaded[j] # <<>>
        /\ loaded[i][1].id = loaded[j][1].id
    /\ \E f \in files : f.path = AllCsvPath /\ Len(f.rows) >= 3

LoadErrors == {"RuntimeError", "AttributeError", "TypeError"}

\* C4: when the fetch or the extraction of the companies of industry idx fails, main
\* ends with the error: no request for a later industry, the combined CSV is not
\* written, and every per-industry CSV written before is on disk as written
C4_FailureAborts ==
    (pc = "failed" /\ idx >= 1 /\ error \in LoadErrors) =>
        /\ requests = <<StaticDataRequest>> \o
              [n \in 1..idx |-> RelatedCompanyRequest(industries[n].code)]
        /\ Len(loaded) = idx - 1
        /\ \A n \in 1..Len(written) :
            /\ written[n].path # AllCsvPath
            /\ [path |-> written[n].path, rows |-> written[n].rows] \in files
        /\ {f \in files : f.path = AllCsvPath} = {f \in files0 : f.path = AllCsvPath}
        /\ ~ENABLED Next

\* C4 happens: the second of three industries fails after the first was written
C4_Witness ==
    /\ pc = "failed" /\ error = "RuntimeError" /\ idx = 2 /\ Len(industries) = 3
    /\ Len(written) = 1

\* the path of the CSV of an industry name, with suffix _n when n >= 2
SlugCsv(name, n) ==
    IndustriesDir \o <<"/">> \o slugify(PyStr(name))
        \o (IF n = 1 THEN <<>> ELSE <<"_">> \o IntStr(n)) \o CsvExt

\* path was a file or a directory before the i-th file of this run was written
ExistedBefore(i, path) ==
    \/ path \in dirs
    \/ \E f \in files0 : f.path = path
    \/ \E j \in 1..(i - 1) : written[j].path = path

IndustryWrites == {i \in 1..Len(written) : written[i].path # AllCsvPath}

\* C5: write_industry_csv writes to no path that existed before the call: to
\* slugify(name).csv when unused, else to the name suffixed _i for the smallest
\* i >= 2 whose path is unused; two calls with one name give two files, the second
\* suffixed _2, and leave the first as written
C5_UnusedPath ==
    /\ \A i \in IndustryWrites :
        /\ ~ExistedBefore(i, written[i].path)
        /\ \E n \in 1..(Len(written) + Cardinality(files0) + Cardinality(dirs) + 1) :
            /\ written[i].path = SlugCsv(written[i].name, n)
            /\ \A m \in 1..(n - 1) : ExistedBefore(i, SlugCsv(written[i].name, m))
        /\ [path |-> written[i].path, rows |-> written[i].rows] \in files
    /\ \A i, j \in IndustryWrites :
        (/\ i < j /\ written[i].name = written[j].name
         /\ written[i].path = SlugCsv(written[i].name, 1)
         /\ ~ExistedBefore(j, SlugCsv(written[i].name, 2)))
        => written[j].path = SlugCsv(written[i].name, 2)

\* C5 happens: two industries of one name, the second file suffixed _2
C5_Witness ==
    \E i, j \in IndustryWrites :
        /\ i < j /\ written[i].name = written[j].name
        /\ written[i].path = SlugCsv(written[i].name, 1)
        /\ written[j].path = SlugCsv(written[i].name, 2)

\* the passes of the loop that loaded companies
NonEmptyPasses == {i \in 1..Len(loaded) : loaded[i] # <<>>}

\* C6: a pass of the loop that loads no company writes no file and adds no row,
\* and the loop goes on: the next industries are fetched and written
C6_EmptySkipped ==
    (pc \in {"loop", "done"} /\ industries # <<>>) =>
        /\ Len(loaded) = idx - 1
        /\ pc = "done" => Len(loaded) = Len(industries)
        /\ \A i \in 1..Len(loaded) :
            requests[i + 1] = RelatedCompanyRequest(industries[i].code)
        /\ Cardinality(IndustryWrites) = Cardinality(NonEmptyPasses)
        /\ \A n \in 1..Cardinality(NonEmptyPasses) :
            LET i == NthOf(NonEmptyPasses, n)
                w == written[NthOf(IndustryWrites, n)]
            IN  /\ w.name = industries[i].name
                /\ w.rows = IndustryCsvRows(loaded[i])
        /\ Len(all_rows) = Len(ExpectedAllRows)

\* C6 happens: the first industry has no company, the second is fetched and written
C6_Witness ==
    /\ pc = "done" /\ Len(loaded) >= 2 /\ loaded[1] = <<>> /\ loaded[2] # <<>>
    /\ requests[3] = RelatedCompanyRequest(industries[2].code)
    /\ Cardinality(IndustryWrites) >= 1

\* C7: when the industry list is empty, main ends successfully with no
\* related-company request made and no file written
C7_NoIndustries ==
    (requests # <<>> /\ industries = <<>> /\ pc # "failed") =>
        /\ pc = "done" /\ error = "none"
        /\ requests = <<StaticDataRequest>>
        /\ loaded = <<>> /\ written = <<>> /\ files = files0

\* C7 happens: main ends on an empty industry list and leaves the disk's files
C7_Witness == pc = "done" /\ industries = <<>> /\ files0 # {} /\ files = files0

\* the elements load_industries iterates over
ItemsOf(data) ==
    Iterate(Or(Or(DictGet(data, "staticData"), DictGet(data, "StaticData")), PyList(<<>>)))

\* the code field of an element, None when absent
RawCode(it) == first_key(it, CodeKeys, None)

\* an element that is a mapping of type IndustrialGroup with a code
IsIndustryItem(it) ==
    /\ it.k = "dict"
    /\ first_key(it, TypeKeys, None) = PyStr(IndustrialGroup)
    /\ RawCode(it).k # "none"

\* purely-decimal codes zero-padded to 2 characters, others unchanged
ZeroPadDecimal(t) ==
    IF Len(t) = 1 /\ t[1] \in DecDigits THEN <<"0">> \o t ELSE t

\* codes trimmed, then zero-padded to 2 characters when made of digit characters
TrimZeroPadDigits(t) ==
    LET u == Strip(t)
    IN  IF Len(u) = 1 /\ u[1] \in DecDigits \cup OtherDigits THEN <<"0">> \o u ELSE u

\* the elements that are the first of their code, Key the code's normal form
FirstItems(items, Key(_)) ==
    LET elig == {i \in 1..Len(items) : IsIndustryItem(items[i])}
    IN  SortedSeq({i \in elig : \A j \in elig : j < i => Key(items[j]) # Key(items[i])})

IndustriesAreFirstItems(Key(_)) ==
    (li_pc = "done" /\ li_out.ok) =>
        LET items == ItemsOf(li_data)
            firsts == FirstItems(items, Key)
        IN  /\ Len(li_out.v) = Len(firsts)
            /\ \A n \in 1..Len(firsts) :
                /\ li_out.v[n].code = Key(items[firsts[n]])
                /\ li_out.v[n] = IndustryOf(items[firsts[n]])[1]

ClaimedCode(it) == ZeroPadDecimal(Str(RawCode(it)))

AmendedCode(it) == TrimZeroPadDigits(Str(RawCode(it)))

\* C8 as stated: one entry per distinct code after zero-padding purely-decimal
\* codes, the first element seen with the code, in encounter order
C8_OnePerPaddedCode == IndustriesAreFirstItems(ClaimedCode)

\* C8, amended: one entry per distinct code after the code is made text, trimmed of
\* surrounding whitespace and, when made only of digit characters, zero-padded to 2
\* characters; the first element seen with the code, in encounter order
C8_OnePerTrimmedPaddedCode == IndustriesAreFirstItems(AmendedCode)

\* C8 happens: codes "1" and "01" in one list give one industry, the first seen
C8_Witness ==
    /\ li_pc = "done" /\ li_out.ok
    /\ LET items == ItemsOf(li_data)
       IN  /\ Len(items) >= 2
           /\ IsIndustryItem(items[1]) /\ IsIndustryItem(items[2])
           /\ RawCode(items[1]) = PyStr(<<"1">>) /\ RawCode(items[2]) = PyStr(<<"0", "1">>)
           /\ Len(li_out.v) = 1
           /\ li_out.v[1] = [code |-> <<"0", "1">>, name |-> <<"a">>]

\* the rows load_companies_for_industry iterates over
RowsOf(data) ==
    Iterate(Or(Or(DictGet(data, "relatedCompany"), DictGet(data, "RelatedCompany")),
               PyList(<<>>)))

\* the nested instrument mapping of a row, the row itself when it has none
NestedMappingOrRow(row) ==
    IF DictGet(row, "instrument").k = "dict" THEN DictGet(row, "instrument")
    ELSE IF DictGet(row, "Instrument").k = "dict" THEN DictGet(row, "Instrument")
    ELSE row

\* the first of row["instrument"], row["Instrument"] that is not None, zero or
\* empty, the row itself when there is none
FirstNonEmptyOrRow(row) ==
    IF Truthy(DictGet(row, "instrument")) THEN DictGet(row, "instrument")
    ELSE IF Truthy(DictGet(row, "Instrument")) THEN DictGet(row, "Instrument")
    ELSE row

HasIdAndSymbol(instr) ==
    /\ instr.k = "dict"
    /\ \E i \in 1..Len(InsCodeKeys) : DictGet(instr, InsCodeKeys[i]).k # "none"
    /\ \E i \in 1..Len(SymbolKeys) : DictGet(instr, SymbolKeys[i]).k # "none"

IdOf(instr) == Strip(Str(first_key(instr, InsCodeKeys, None)))

\* the rows that are the first of their id, Sel the instrument of a row
FirstRows(rows, Sel(_)) ==
    LET elig == {i \in 1..Len(rows) : rows[i].k = "dict" /\ HasIdAndSymbol(Sel(rows[i]))}
    IN  SortedSeq({i \in elig :
                     \A j \in elig : j < i => IdOf(Sel(rows[j])) # IdOf(Sel(rows[i]))})

CompaniesAreFirstRows(Sel(_)) ==
    (lc_pc = "done" /\ lc_out.ok) =>
        LET rows == RowsOf(lc_data)
            firsts == FirstRows(rows, Sel)
        IN  /\ Len(lc_out.v) = Len(firsts)
            /\ \A n \in 1..Len(firsts) :
                /\ lc_out.v[n].id = IdOf(Sel(rows[firsts[n]]))
                /\ lc_out.v[n] = CompanyOfInstr(Sel(rows[firsts[n]]))[1]

\* C9 as stated: rows without id or symbol are skipped; one Company per distinct id,
\* from the first row seen with it, in encounter order; a row with no nested
\* instrument mapping is itself the instrument
C9_OnePerIdNestedMapping == CompaniesAreFirstRows(NestedMappingOrRow)

\* C9, amended: the same, the instrument of a row being the first non-empty value of
\* its instrument and Instrument entries, or the row itself when both are absent,
\* null or empty; a row whose instrument is not a mapping is skipped
C9_OnePerIdFirstNonEmpty == CompaniesAreFirstRows(FirstNonEmptyOrRow)

\* C9 happens: two rows of id 7 with symbols S and T give one Company, symbol S
C9_Witness ==
    /\ lc_pc = "done" /\ lc_out.ok
    /\ LET rows == RowsOf(lc_data)
       IN  /\ Len(rows) = 2
           /\ rows[1] = DictOf(<<<<"instrument", Instrument7>>>>)
           /\ rows[2] = DictOf(<<<<"Instrument", Instrument7T>>>>)
    /\ lc_out.v = <<[id |-> <<"7">>, symbol |-> <<"S">>, name |-> <<"a">>]>>

\* what is left of a text once normalised and stripped of the other characters
Remains(s) ==
    SelectSeq(normalize_text(s), LAMBDA c : c \in WordChars \cup WhiteSpace \cup {"-"})

\* C10: for every text, absent, empty, whitespace-only and punctuation-only ones
\* included, slugify returns from 1 to 120 characters, each a word character or a
\* hyphen, none a whitespace or a path separator; it returns "unknown" when
\* nothing remains after stripping
C10_SlugSafe ==
    s_pc = "done" =>
        /\ Len(slug) >= 1 /\ Len(slug) <= SlugLimit
        /\ \A i \in 1..Len(slug) :
            /\ slug[i] \in WordChars \cup {"-"}
            /\ slug[i] \notin WhiteSpace \cup ZeroWidth \cup {"/", "\\", "."}
        /\ Remains(text) = <<>> => slug = Unknown
        /\ (\/ text = None
            \/ \A i \in 1..Len(text.s) : text.s[i] \in WhiteSpace \cup ZeroWidth
            \/ \A i \in 1..Len(text.s) : text.s[i] \in Punctuation)
           => slug = Unknown

\* C10 happens: a text longer than the limit once normalised is cut to 120
C10_Witness ==
    /\ s_pc = "done" /\ text # None
    /\ Len(Remains(text)) > SlugLimit /\ Len(slug) = SlugLimit
    /\ \E i \in 1..Len(text.s) : text.s[i] \in Ligatures

=============================================================================
